---- MODULE Spec2Model ----
(***************************************************************************)
(* A model of ci_info/push.py: Task, LabelSummary and Push with its lazy,  *)
(* memoized properties, the walk to the parent push and the walk through   *)
(* the ancestors that computes the regressions of a push.                  *)
(***************************************************************************)
EXTENDS Integers, Sequences, FiniteSets, TLC

VARIABLES
    heap,       \* the Push instances: heap[o] = [rev, branch, cache]
    hgRepo,     \* the metadata of the revisions met so far: rev -> json
    queryData,  \* the push_results rows of the revisions met so far: rev -> rows
    runs,       \* <<o, name>> -> how often the body of that memoized property ran
    fetches,    \* <<o, kind>> -> how many requests instance o issued of that kind
    pc,         \* where the interpreter is: idle, or in one of the two loops
    reg,        \* the activation of Push.regressions
    par,        \* the activation of Push.parent
    ret,        \* what the caller's last access returned: [name, val]; none while one runs
    limits,     \* the world: [same, merge, labels, fail], the extra commits of
                \* pushes, the merges, the task labels the CI runs, and how many
                \* requests may fail
    summary     \* a LabelSummary built directly from the dataclass

vars == <<heap, hgRepo, queryData, runs, fetches, pc, reg, par, ret, limits, summary>>

----------------------------------------------------------------------------
(* Bounds of the model *)

\* revisions are numbered from 0, the root; in the ancestry runs the push
\* under analysis is at MaxRev and one push may hold WalkSamePush extra commits
MaxRev == 3
WalkSamePush == 1
\* in the deep runs the push is at DeepRev, one label runs, a push is a commit
DeepRev == 7
\* in the parent runs the push is at ParentRev, and the repository holds up to
\* MaxSamePush extra commits of multi-commit pushes and MaxMerges merges
ParentRev == 5
MaxSamePush == 2
MaxMerges == 1
\* longest list of rows a push_results query returns in the ingestion runs
MaxRecords == 2
\* longest task list of a directly built LabelSummary
MaxSummaryTasks == 3

Labels == {"L1", "L2"}
Branches == {"autoland", "mozilla-inbound"}

----------------------------------------------------------------------------
(* Task and LabelSummary *)

\* Task.failed
failed(t) == t.result \in {"busted", "exception", "testfailed"}

\* LabelSummary.__post_init__
post_init(label, tasks) == \A i \in 1..Len(tasks) : tasks[i].label = label

\* LabelSummary.classifications without its "if t.failed"
classifications_of_all_tasks(s) ==
    {s.tasks[i].classification : i \in 1..Len(s.tasks)}

\* LabelSummary.classifications
classifications(s) ==
    {s.tasks[i].classification : i \in {j \in 1..Len(s.tasks) : failed(s.tasks[j])}}

\* LabelSummary.results
results(s) == {s.tasks[i].result : i \in 1..Len(s.tasks)}

\* the loop of LabelSummary.status from task i on; "None" is Python's None
RECURSIVE statusLoop(_, _, _)
statusLoop(tasks, i, overall_status) ==
    IF i > Len(tasks) THEN overall_status
    ELSE LET st == IF failed(tasks[i]) THEN "FAIL" ELSE "PASS"
         IN  statusLoop(tasks, i + 1,
                 IF overall_status = "None" THEN st
                 ELSE IF st # overall_status THEN "INTERMITTENT"
                 ELSE overall_status)

\* LabelSummary.status if the loop kept only the status of the task at hand
status_of_last_task(s) ==
    IF s.tasks = <<>> THEN "None"
    ELSE IF failed(s.tasks[Len(s.tasks)]) THEN "FAIL" ELSE "PASS"

\* LabelSummary.status
status(s) == statusLoop(s.tasks, 1, "None")

----------------------------------------------------------------------------
(* The bodies of the Push properties that only compute *)

RequiredKeys == {"label", "duration", "result", "classification"}

\* the sanitizing loop of Push.tasks if it tested duration < 0
RECURSIVE tasksLoop_zero_kept(_, _, _)
tasksLoop_zero_kept(data, i, tasks) ==
    IF i > Len(data) THEN tasks
    ELSE LET kwargs == data[i]
         IN  IF \E a \in RequiredKeys : a \notin DOMAIN kwargs
                 THEN tasksLoop_zero_kept(data, i + 1, tasks)
             ELSE IF kwargs.duration < 0
                 THEN tasksLoop_zero_kept(data, i + 1, tasks)
             ELSE tasksLoop_zero_kept(data, i + 1, Append(tasks, kwargs))

\* the sanitizing loop of Push.tasks over the rows of the query, from row i on
RECURSIVE tasksLoop(_, _, _)
tasksLoop(data, i, tasks) ==
    IF i > Len(data) THEN tasks
    ELSE LET kwargs == data[i]
         IN  IF \E a \in RequiredKeys : a \notin DOMAIN kwargs
                 THEN tasksLoop(data, i + 1, tasks)
             ELSE IF kwargs.duration <= 0
                 THEN tasksLoop(data, i + 1, tasks)
             ELSE tasksLoop(data, i + 1, Append(tasks, kwargs))

\* Push.task_labels if it took the labels of the failed tasks only
task_labels_failed(tasks) ==
    {tasks[i].label : i \in {j \in 1..Len(tasks) : failed(tasks[j])}}

\* Push.task_labels, from the task list
task_labels(tasks) == {tasks[i].label : i \in 1..Len(tasks)}

\* the grouping loop of Push.label_summaries if it put each task in front
RECURSIVE groupLoop_prepend(_, _, _)
groupLoop_prepend(tasks, i, labels) ==
    IF i > Len(tasks) THEN labels
    ELSE LET l == tasks[i].label
             old == IF l \in DOMAIN labels THEN labels[l] ELSE <<>>
         IN  groupLoop_prepend(tasks, i + 1,
                 [k \in DOMAIN labels \cup {l} |->
                     IF k = l THEN <<tasks[i]>> \o old ELSE labels[k]])

\* the grouping loop of Push.label_summaries: label -> list of its tasks
RECURSIVE groupLoop(_, _, _)
groupLoop(tasks, i, labels) ==
    IF i > Len(tasks) THEN labels
    ELSE LET l == tasks[i].label
             old == IF l \in DOMAIN labels THEN labels[l] ELSE <<>>
         IN  groupLoop(tasks, i + 1,
                 [k \in DOMAIN labels \cup {l} |->
                     IF k = l THEN Append(old, tasks[i]) ELSE labels[k]])

EmptyMap == [k \in {} |-> 0]

\* Push.label_summaries, from the task list: label -> LabelSummary
label_summaries_of(tasks) ==
    LET labels == groupLoop(tasks, 1, EmptyMap)
    IN  [l \in DOMAIN labels |-> [label |-> l, tasks |-> labels[l]]]

\* every LabelSummary(label, tasks) of Push.label_summaries passes the
\* assertion of __post_init__
asserted(tasks) ==
    LET labels == groupLoop(tasks, 1, EmptyMap)
    IN  \A l \in DOMAIN labels : post_init(l, labels[l])

\* sum(t.duration for t in self.tasks), from task i on
RECURSIVE sumLoop(_, _)
sumLoop(tasks, i) ==
    IF i > Len(tasks) THEN 0 ELSE tasks[i].duration + sumLoop(tasks, i + 1)

\* int(x / 3600) if it rounded up to the next whole hour
hours_rounded_up(seconds) == (seconds + 3599) \div 3600

\* int(x / 3600) of a sum of seconds: the division truncated towards zero
hours(seconds) ==
    IF seconds >= 0 THEN seconds \div 3600 ELSE -((-seconds) \div 3600)

\* Push.duration, from the task list
duration_of(tasks) == hours(sumLoop(tasks, 1))

\* the loop of Push.scheduled_duration if it forgot seen.add(task.label)
RECURSIVE scheduledLoop_seen_forgotten(_, _, _, _)
scheduledLoop_seen_forgotten(tasks, i, seen, duration) ==
    IF i > Len(tasks) THEN duration
    ELSE IF tasks[i].label \notin seen
        THEN scheduledLoop_seen_forgotten(tasks, i + 1, seen,
                 duration + tasks[i].duration)
    ELSE scheduledLoop_seen_forgotten(tasks, i + 1, seen, duration)

\* the loop of Push.scheduled_duration from task i on
RECURSIVE scheduledLoop(_, _, _, _)
scheduledLoop(tasks, i, seen, duration) ==
    IF i > Len(tasks) THEN duration
    ELSE IF tasks[i].label \notin seen
        THEN scheduledLoop(tasks, i + 1, seen \cup {tasks[i].label},
                 duration + tasks[i].duration)
    ELSE scheduledLoop(tasks, i + 1, seen, duration)

\* Push.scheduled_duration, from the task list
scheduled_duration_of(tasks) == hours(scheduledLoop(tasks, 1, {}, 0))

failclass == {"not classified", "fixed by commit"}

\* Push.candidate_regressions, from the label summaries
candidate_regressions_of(summaries) ==
    {label \in DOMAIN summaries :
        /\ status(summaries[label]) # "PASS"
        /\ ~ (\A c \in classifications(summaries[label]) : c \notin failclass)}

\* Push.possible_regressions if it tested count >= 0
possible_regressions_ge0(regressions) ==
    {label \in DOMAIN regressions : regressions[label] >= 0}

\* Push.possible_regressions and Push.likely_regressions, from the regressions
possible_regressions_of(regressions) ==
    {label \in DOMAIN regressions : regressions[label] > 0}

likely_regressions_of(regressions) ==
    {label \in DOMAIN regressions : regressions[label] = 0}

----------------------------------------------------------------------------
(* The interpreter state the property bodies read and write *)

\* fail_at: which request of the step fails (1: the first), 0 if none does
Machine ==
    [heap |-> heap, hgRepo |-> hgRepo, queryData |-> queryData,
     runs |-> runs, fetches |-> fetches, fail_at |-> 0]

Count(f, k) == IF k \in DOMAIN f THEN f[k] ELSE 0

Put(f, k, v) == [x \in DOMAIN f \cup {k} |-> IF x = k THEN v ELSE f[x]]

Bump(f, k) == Put(f, k, Count(f, k) + 1)

\* a body returns val / raises err
Out(m, val) == [m |-> m, val |-> val, exc |-> FALSE]

Raise(m, err) == [m |-> m, val |-> err, exc |-> TRUE]

\* what requests.get(url).json() and run_query raise on a network error or
\* on malformed JSON
FetchError == "RequestException"

\* instance o issues a request of that kind
request(m, o, kind) ==
    [m EXCEPT !.fetches = Bump(@, <<o, kind>>),
              !.fail_at = IF @ > 0 THEN @ - 1 ELSE 0]

\* the request about to be issued fails
fails(m) == m.fail_at = 1

AssertionError == "AssertionError"

\* memoized_property: the attribute is already set on the instance
memoized(m, o, name) == name \in DOMAIN m.heap[o].cache

\* memoized_property: run the body once and keep its value on the instance
store(m, o, name, val) ==
    [m EXCEPT !.heap[o].cache = Put(@, name, val),
              !.runs = Bump(@, <<o, name>>)]

\* Push.__init__; instances made by Push(rev) get the default branch
DefaultBranch == "autoland"

Push(rev, branch) == [rev |-> rev, branch |-> branch, cache |-> EmptyMap]

----------------------------------------------------------------------------
(* What the two services answer.  A revision's metadata and its rows are   *)
(* fixed once served: a later request for the same revision gets the same. *)

SamePushCount(repo) ==
    Cardinality({r \in DOMAIN repo :
        r + 1 \in DOMAIN repo /\ repo[r + 1].pushid = repo[r].pushid})

MergeCount(repo) == Cardinality({r \in DOMAIN repo : Len(repo[r].parents) > 1})

\* the json of a revision: the root has no parents, a merge has two, and the
\* pushid of a revision is that of its child or the one before
HgmoAnswers(m, rev) ==
    IF rev \in DOMAIN m.hgRepo THEN {m.hgRepo[rev]}
    ELSE LET up == IF rev + 1 \in DOMAIN m.hgRepo
                       THEN m.hgRepo[rev + 1].pushid ELSE rev + 1
             pushids == {up - 1} \cup
                 (IF rev + 1 \in DOMAIN m.hgRepo
                     /\ SamePushCount(m.hgRepo) < limits.same
                  THEN {up} ELSE {})
             parents == IF rev = 0 THEN {<<>>}
                 ELSE {<<rev - 1>>} \cup
                     (IF rev >= 2 /\ MergeCount(m.hgRepo) < limits.merge
                      THEN {<<rev - 1, rev - 2>>} ELSE {})
         IN  {[pushid |-> p, parents |-> ps] : p \in pushids, ps \in parents}

Row(label, duration, result, classification) ==
    [label |-> label, duration |-> duration, result |-> result,
     classification |-> classification]

\* how one label ran on a push: not at all, passed, failed unclassified, or
\* failed and passed on a retrigger
RunsOf(label) ==
    { <<>>,
      <<Row(label, 1800, "success", "not classified")>>,
      <<Row(label, 1800, "testfailed", "not classified")>>,
      <<Row(label, 1800, "testfailed", "not classified"),
        Row(label, 1800, "success", "not classified")>> }

\* the rows of a push: each label the CI runs, in one of these ways
WalkData ==
    {a \o b :
        a \in IF "L1" \in limits.labels THEN RunsOf("L1") ELSE {<<>>},
        b \in IF "L2" \in limits.labels THEN RunsOf("L2") ELSE {<<>>}}

QueryAnswers(m, rev) ==
    IF rev \in DOMAIN m.queryData THEN {m.queryData[rev]} ELSE WalkData

----------------------------------------------------------------------------
(* The memoized properties of Push.  Each takes the interpreter state, the *)
(* instance and the answer the service gives if the body has to fetch, and *)
(* yields the new interpreter state and the property's value.              *)

\* Push._hgmo
hgmo_body(m, o, json) ==
    LET rev == m.heap[o].rev
        body == IF rev \in DOMAIN m.hgRepo THEN m.hgRepo[rev] ELSE json
        m1 == [request(m, o, "hgmo") EXCEPT !.hgRepo = Put(@, rev, body)]
    IN  IF fails(m) THEN Raise(request(m, o, "hgmo"), FetchError)
        ELSE Out(store(m1, o, "_hgmo", body), body)

Push_hgmo(m, o, json) ==
    IF memoized(m, o, "_hgmo") THEN Out(m, m.heap[o].cache["_hgmo"])
    ELSE hgmo_body(m, o, json)

\* Push.pushid
Push_pushid(m, o, json) ==
    LET r == Push_hgmo(m, o, json)
    IN  IF r.exc THEN r ELSE Out(r.m, r.val.pushid)

\* Push.tasks
tasks_body(m, o, data) ==
    LET rev == m.heap[o].rev
        rows == IF rev \in DOMAIN m.queryData THEN m.queryData[rev] ELSE data
        m1 == [request(m, o, "push_results") EXCEPT !.queryData = Put(@, rev, rows)]
        val == tasksLoop(rows, 1, <<>>)
    IN  IF fails(m) THEN Raise(request(m, o, "push_results"), FetchError)
        ELSE Out(store(m1, o, "tasks", val), val)

\* Push.tasks if it were a plain property, as task_labels is
Push_tasks_property(m, o, data) == tasks_body(m, o, data)

\* Push.tasks, memoized
Push_tasks(m, o, data) ==
    IF memoized(m, o, "tasks") THEN Out(m, m.heap[o].cache["tasks"])
    ELSE tasks_body(m, o, data)

\* Push.task_labels: a plain property, computed on every access
Push_task_labels(m, o, data) ==
    LET r == Push_tasks(m, o, data)
    IN  IF r.exc THEN r ELSE Out(r.m, task_labels(r.val))

\* Push.label_summaries
Push_label_summaries(m, o, data) ==
    IF memoized(m, o, "label_summaries")
        THEN Out(m, m.heap[o].cache["label_summaries"])
    ELSE LET r == Push_tasks(m, o, data)
             val == label_summaries_of(r.val)
         IN  IF r.exc THEN r
             ELSE IF ~ asserted(r.val) THEN Raise(r.m, AssertionError)
             ELSE Out(store(r.m, o, "label_summaries", val), val)

\* Push.duration
Push_duration(m, o, data) ==
    IF memoized(m, o, "duration") THEN Out(m, m.heap[o].cache["duration"])
    ELSE LET r == Push_tasks(m, o, data)
             val == duration_of(r.val)
         IN  IF r.exc THEN r ELSE Out(store(r.m, o, "duration", val), val)

\* Push.scheduled_duration
Push_scheduled_duration(m, o, data) ==
    IF memoized(m, o, "scheduled_duration")
        THEN Out(m, m.heap[o].cache["scheduled_duration"])
    ELSE LET r == Push_tasks(m, o, data)
             val == scheduled_duration_of(r.val)
         IN  IF r.exc THEN r
             ELSE Out(store(r.m, o, "scheduled_duration", val), val)

\* Push.candidate_regressions
Push_candidate_regressions(m, o, data) ==
    IF memoized(m, o, "candidate_regressions")
        THEN Out(m, m.heap[o].cache["candidate_regressions"])
    ELSE LET r == Push_label_summaries(m, o, data)
             val == candidate_regressions_of(r.val)
         IN  IF r.exc THEN r
             ELSE Out(store(r.m, o, "candidate_regressions", val), val)

----------------------------------------------------------------------------
(* The artifacts of the Decision task.  A url is its directory and the    *)
(* name after its last slash; an artifact that is not there is None.       *)

Url(name) == [dir |-> "artifacts/public", name |-> name]

\* url.rsplit('/', 1)[1]
basename(url) == url.name

None == [is_none |-> TRUE]

Some(json) == [is_none |-> FALSE, json |-> json]

\* the memo of _get_decision_artifact for one name
ArtifactMemo(name) ==
    IF name = "target-tasks.json" THEN "_get_decision_artifact('target-tasks.json')"
    ELSE "_get_decision_artifact('task-graph.json')"

\* Push._decision_artifact_urls
Push_decision_artifact_urls(m, o, urls) ==
    IF memoized(m, o, "_decision_artifact_urls")
        THEN Out(m, m.heap[o].cache["_decision_artifact_urls"])
    ELSE IF fails(m) THEN Raise(request(m, o, "decision_artifacts"), FetchError)
    ELSE Out(store(request(m, o, "decision_artifacts"), o,
                 "_decision_artifact_urls", urls), urls)

\* the for loop of _get_decision_artifact from url i on
RECURSIVE artifactLoop(_, _, _, _, _, _)
artifactLoop(m, o, name, urls, i, json) ==
    IF i > Len(urls) THEN Out(store(m, o, ArtifactMemo(name), None), None)
    ELSE IF basename(urls[i]) = name
        THEN IF fails(m) THEN Raise(request(m, o, name), FetchError)
             ELSE Out(store(request(m, o, name), o, ArtifactMemo(name), Some(json)),
                      Some(json))
    ELSE artifactLoop(m, o, name, urls, i + 1, json)

\* Push._get_decision_artifact
Push_get_decision_artifact(m, o, name, urls, json) ==
    IF memoized(m, o, ArtifactMemo(name))
        THEN Out(m, m.heap[o].cache[ArtifactMemo(name)])
    ELSE LET r == Push_decision_artifact_urls(m, o, urls)
         IN  IF r.exc THEN r ELSE artifactLoop(r.m, o, name, r.val, 1, json)

\* Push.target_task_labels: set(None) is a TypeError
Push_target_task_labels(m, o, urls, json) ==
    IF memoized(m, o, "target_task_labels")
        THEN Out(m, m.heap[o].cache["target_task_labels"])
    ELSE LET r == Push_get_decision_artifact(m, o, "target-tasks.json", urls, json)
             val == {r.val.json[i] : i \in 1..Len(r.val.json)}
         IN  IF r.exc THEN r
             ELSE IF r.val.is_none THEN Raise(r.m, "TypeError")
             ELSE Out(store(r.m, o, "target_task_labels", val), val)

\* Push.scheduled_task_labels: None.values() is an AttributeError
Push_scheduled_task_labels(m, o, urls, json) ==
    IF memoized(m, o, "scheduled_task_labels")
        THEN Out(m, m.heap[o].cache["scheduled_task_labels"])
    ELSE LET r == Push_get_decision_artifact(m, o, "task-graph.json", urls, json)
             val == {r.val.json[t].label : t \in DOMAIN r.val.json}
         IN  IF r.exc THEN r
             ELSE IF r.val.is_none THEN Raise(r.m, "AttributeError")
             ELSE Out(store(r.m, o, "scheduled_task_labels", val), val)

\* what the decision_artifacts query answers: the urls of the artifacts
DecisionAnswers ==
    { <<Url("target-tasks.json"), Url("task-graph.json")>>,
      <<Url("parameters.yml")>> }

\* target-tasks.json: a list of labels
TargetTasksAnswers == { <<"L1">>, <<"L1", "L2">> }

\* task-graph.json: task id -> task
TaskGraphAnswers ==
    { [t \in {"t1"} |-> [label |-> "L1"]],
      [t \in {"t1", "t2"} |-> [label |-> IF t = "t1" THEN "L1" ELSE "L2"]] }

----------------------------------------------------------------------------
(* Activations of the two loops *)

NoReg ==
    [self |-> 0, todo |-> {}, label |-> "", count |-> 0,
     other |-> 0, regressions |-> EmptyMap]

NoPar == [self |-> 0, other |-> 0, revs |-> <<>>, to |-> ""]

NoSummary == [label |-> "", tasks |-> <<>>]

\* what the caller got from its last access
Returned(name, val) == [name |-> name, val |-> val]

NoRet == Returned("", 0)

\* the push the caller holds
P == 1

\* the value an access to regressions, possible_regressions or
\* likely_regressions returns, given the regressions of the push
view(want, regressions) ==
    IF want = "possible_regressions" THEN possible_regressions_of(regressions)
    ELSE IF want = "likely_regressions" THEN likely_regressions_of(regressions)
    ELSE regressions

SetMachine(m) ==
    /\ heap' = m.heap
    /\ hgRepo' = m.hgRepo
    /\ queryData' = m.queryData
    /\ runs' = m.runs
    /\ fetches' = m.fetches

\* the caller's access ended with an exception
Raised(err) == Returned("raise", err)

\* the module if it caught the exception and returned the regressions
\* found so far
Propagate_partial(r) ==
    /\ SetMachine(store(r.m, P, "regressions", reg.regressions))
    /\ pc' = "idle"
    /\ reg' = NoReg
    /\ par' = NoPar
    /\ ret' = Returned("regressions", reg.regressions)

\* nothing in push.py catches: an exception leaves every frame and reaches
\* the caller of the property
Propagate(r) ==
    /\ SetMachine(r.m)
    /\ pc' = "idle"
    /\ reg' = NoReg
    /\ par' = NoPar
    /\ ret' = Raised(r.val)

RECURSIVE SumOf(_)
SumOf(f) ==
    IF DOMAIN f = {} THEN 0
    ELSE LET k == CHOOSE x \in DOMAIN f : TRUE
         IN  f[k] + SumOf([x \in DOMAIN f \ {k} |-> f[x]])

\* the property that keeps the answer of a request of that kind
MemoOf(kind) ==
    IF kind = "hgmo" THEN "_hgmo"
    ELSE IF kind = "push_results" THEN "tasks"
    ELSE IF kind = "decision_artifacts" THEN "_decision_artifact_urls"
    ELSE ArtifactMemo(kind)

\* the requests that were answered: their answer is memoized on the instance
Answered ==
    {k \in DOMAIN fetches : MemoOf(k[2]) \in DOMAIN heap[k[1]].cache}

\* the requests that failed so far
Failed == SumOf(fetches) - Cardinality(Answered)

\* no property issues more requests in one step
MaxRequests == 2

\* the interpreter state a step runs in: the requests of the step are
\* answered, or, while the world has failures left, one of them fails
Net ==
    {Machine} \cup
        (IF Failed < limits.fail
            THEN {[Machine EXCEPT !.fail_at = k] : k \in 1..MaxRequests} ELSE {})

\* the walk if it never found the label
ran_on_none(labels, label) == FALSE

\* label in other.task_labels
ran_on(labels, label) == label \in labels

\* the test for a prior regression if it asked for Status.FAIL only
prior_regression_fail_only(summaries, label) == status(summaries[label]) = "FAIL"

\* Push.regressions: the walk has found the label on other: is it a prior regression?
prior_regression(summaries, label) == status(summaries[label]) # "PASS"

\* the walk if it forgot count += 1
count_kept(count) == count

\* count += 1
count_next(count) == count + 1

\* the access to self.parent is answered from the instance
ParentMemoized(m, o) == memoized(m, o, "parent")

----------------------------------------------------------------------------
(* Push.parent *)

\* the caller reads o.parent
ReadParent(o) ==
    /\ pc = "idle"
    /\ IF ParentMemoized(Machine, o)
         THEN /\ ret' = Returned("parent", heap[o].cache["parent"])
              /\ UNCHANGED <<pc, par>>
         ELSE /\ par' = [self |-> o, other |-> o, revs |-> <<>>, to |-> "caller"]
              /\ pc' = "parent_while"
              /\ ret' = NoRet
    /\ UNCHANGED <<heap, hgRepo, queryData, runs, fetches, reg, limits, summary>>

\* the caller reads P.parent
CallParent == ReadParent(P)

\* the caller reads the parent of a Push it got as a parent
CallParentOfParent ==
    \E o \in 1..Len(heap) :
        /\ ParentMemoized(Machine, o)
        /\ ReadParent(heap[o].cache["parent"])

\* while True: the for statement evaluates other._hgmo['parents']
ParentWhile ==
    /\ pc = "parent_while"
    /\ \E m \in Net, json \in HgmoAnswers(Machine, heap[par.other].rev) :
         LET r == Push_hgmo(m, par.other, json)
         IN  IF r.exc THEN Propagate(r)
             ELSE /\ SetMachine(r.m)
                  /\ par' = [par EXCEPT !.revs = r.val.parents]
                  /\ pc' = "parent_for"
                  /\ UNCHANGED <<reg, ret>>
    /\ UNCHANGED <<limits, summary>>

\* the for loop has no revision left: back to the top of while True
ParentForEnd ==
    /\ pc = "parent_for"
    /\ par.revs = <<>>
    /\ pc' = "parent_while"
    /\ UNCHANGED <<heap, hgRepo, queryData, runs, fetches, reg, par, ret,
                   limits, summary>>

\* where the value of a finished Push.parent goes
Deliver(to, parent) ==
    IF to = "caller"
        THEN /\ ret' = Returned("parent", parent)
             /\ pc' = "idle"
             /\ UNCHANGED reg
    ELSE /\ reg' = [reg EXCEPT !.other = parent,
                               !.count = IF to = "reg_next" THEN count_next(@) ELSE @]
         /\ pc' = "reg_while"
         /\ UNCHANGED ret

\* one pass of the for loop: parent = Push(rev), then the pushid test
ParentForBody ==
    /\ pc = "parent_for"
    /\ par.revs # <<>>
    /\ LET rev == Head(par.revs)
           parent == Len(heap) + 1
       IN  \E m \in Net, json \in HgmoAnswers(Machine, rev) :
             LET m0 == [m EXCEPT !.heap = Append(@, Push(rev, DefaultBranch))]
                 r1 == Push_pushid(m0, parent, json)
                 r2 == Push_pushid(r1.m, par.self, json)
             IN  IF r1.exc THEN Propagate(r1)
                 ELSE IF r2.exc THEN Propagate(r2)
                 ELSE IF r1.val # r2.val
                     THEN /\ SetMachine(store(r2.m, par.self, "parent", parent))
                          /\ par' = NoPar
                          /\ Deliver(par.to, parent)
                 ELSE /\ SetMachine(r2.m)
                      /\ par' = [par EXCEPT !.other = parent, !.revs = Tail(@)]
                      /\ UNCHANGED <<pc, reg, ret>>
    /\ UNCHANGED <<limits, summary>>

----------------------------------------------------------------------------
(* Push.tasks, Push.label_summaries, Push.candidate_regressions *)

CallTasks ==
    /\ pc = "idle"
    /\ \E m \in Net, data \in QueryAnswers(Machine, heap[P].rev) :
         LET r == Push_tasks(m, P, data)
         IN  IF r.exc THEN Propagate(r)
             ELSE /\ SetMachine(r.m)
                  /\ ret' = Returned("tasks", r.val)
                  /\ UNCHANGED <<pc, reg, par>>
    /\ UNCHANGED <<limits, summary>>

CallLabelSummaries ==
    /\ pc = "idle"
    /\ \E m \in Net, data \in QueryAnswers(Machine, heap[P].rev) :
         LET r == Push_label_summaries(m, P, data)
         IN  IF r.exc THEN Propagate(r)
             ELSE /\ SetMachine(r.m)
                  /\ ret' = Returned("label_summaries", r.val)
                  /\ UNCHANGED <<pc, reg, par>>
    /\ UNCHANGED <<limits, summary>>

CallCandidateRegressions ==
    /\ pc = "idle"
    /\ \E m \in Net, data \in QueryAnswers(Machine, heap[P].rev) :
         LET r == Push_candidate_regressions(m, P, data)
         IN  IF r.exc THEN Propagate(r)
             ELSE /\ SetMachine(r.m)
                  /\ ret' = Returned("candidate_regressions", r.val)
                  /\ UNCHANGED <<pc, reg, par>>
    /\ UNCHANGED <<limits, summary>>

CallDuration ==
    /\ pc = "idle"
    /\ \E m \in Net, data \in QueryAnswers(Machine, heap[P].rev) :
         LET r == Push_duration(m, P, data)
         IN  IF r.exc THEN Propagate(r)
             ELSE /\ SetMachine(r.m)
                  /\ ret' = Returned("duration", r.val)
                  /\ UNCHANGED <<pc, reg, par>>
    /\ UNCHANGED <<limits, summary>>

CallScheduledDuration ==
    /\ pc = "idle"
    /\ \E m \in Net, data \in QueryAnswers(Machine, heap[P].rev) :
         LET r == Push_scheduled_duration(m, P, data)
         IN  IF r.exc THEN Propagate(r)
             ELSE /\ SetMachine(r.m)
                  /\ ret' = Returned("scheduled_duration", r.val)
                  /\ UNCHANGED <<pc, reg, par>>
    /\ UNCHANGED <<limits, summary>>

CallTargetTaskLabels ==
    /\ pc = "idle"
    /\ \E m \in Net, urls \in DecisionAnswers, json \in TargetTasksAnswers :
         LET r == Push_target_task_labels(m, P, urls, json)
         IN  IF r.exc THEN Propagate(r)
             ELSE /\ SetMachine(r.m)
                  /\ ret' = Returned("target_task_labels", r.val)
                  /\ UNCHANGED <<pc, reg, par>>
    /\ UNCHANGED <<limits, summary>>

CallScheduledTaskLabels ==
    /\ pc = "idle"
    /\ \E m \in Net, urls \in DecisionAnswers, json \in TaskGraphAnswers :
         LET r == Push_scheduled_task_labels(m, P, urls, json)
         IN  IF r.exc THEN Propagate(r)
             ELSE /\ SetMachine(r.m)
                  /\ ret' = Returned("scheduled_task_labels", r.val)
                  /\ UNCHANGED <<pc, reg, par>>
    /\ UNCHANGED <<limits, summary>>

----------------------------------------------------------------------------
(* Push.regressions, and the two properties that read it *)

\* The maximum number of parents to search
max_depth == 5

Wants == {"regressions", "possible_regressions", "likely_regressions"}

\* the caller reads P.regressions, P.possible_regressions or
\* P.likely_regressions (the last two read self.regressions and do nothing
\* before, so which of the three it was shows only in the value returned);
\* the body starts with self.candidate_regressions
CallRegressions ==
    /\ pc = "idle"
    /\ IF memoized(Machine, P, "regressions")
         THEN /\ \E want \in Wants :
                   ret' = Returned(want, view(want, heap[P].cache["regressions"]))
              /\ UNCHANGED <<heap, hgRepo, queryData, runs, fetches, pc, reg, par>>
       ELSE \E m \in Net, data \in QueryAnswers(Machine, heap[P].rev) :
              LET r == Push_candidate_regressions(m, P, data)
              IN  IF r.exc THEN Propagate(r)
                  ELSE /\ SetMachine(r.m)
                       /\ reg' = [NoReg EXCEPT !.self = P, !.todo = r.val]
                       /\ pc' = "reg_for"
                       /\ ret' = NoRet
                       /\ UNCHANGED par
    /\ UNCHANGED <<limits, summary>>

\* every candidate has been walked: return regressions
RegForEnd ==
    /\ pc = "reg_for"
    /\ reg.todo = {}
    /\ SetMachine(store(Machine, reg.self, "regressions", reg.regressions))
    /\ \E want \in Wants : ret' = Returned(want, view(want, reg.regressions))
    /\ reg' = NoReg
    /\ pc' = "idle"
    /\ UNCHANGED <<par, limits, summary>>

\* the next candidate label: count = 0, other = self.parent
RegForBody ==
    /\ pc = "reg_for"
    /\ \E label \in reg.todo :
         LET next == [reg EXCEPT !.todo = @ \ {label}, !.label = label,
                                 !.count = 0, !.other = 0]
         IN  IF ParentMemoized(Machine, reg.self)
                 THEN /\ reg' = [next EXCEPT !.other = heap[reg.self].cache["parent"]]
                      /\ pc' = "reg_while"
                      /\ UNCHANGED par
             ELSE /\ reg' = next
                  /\ par' = [self |-> reg.self, other |-> reg.self,
                             revs |-> <<>>, to |-> "reg_first"]
                  /\ pc' = "parent_while"
    /\ UNCHANGED <<heap, hgRepo, queryData, runs, fetches, ret, limits, summary>>

\* one pass of the while loop of the walk
RegWhile ==
    /\ pc = "reg_while"
    /\ \E m \in Net, data \in QueryAnswers(Machine, heap[reg.other].rev) :
         LET r == Push_task_labels(m, reg.other, data)
         IN  IF r.exc THEN Propagate(r)
             ELSE IF ran_on(r.val, reg.label)
                 THEN LET r2 == Push_label_summaries(r.m, reg.other, data)
                      IN  IF r2.exc THEN Propagate(r2)
                          ELSE /\ SetMachine(r2.m)
                               /\ reg' = [reg EXCEPT !.regressions =
                                      IF prior_regression(r2.val, reg.label) THEN @
                                      ELSE Put(@, reg.label, reg.count)]
                               /\ pc' = "reg_for"
                               /\ UNCHANGED <<par, ret>>
             ELSE /\ SetMachine(r.m)
                  /\ IF ParentMemoized(r.m, reg.other)
                         THEN /\ reg' = [reg EXCEPT
                                    !.other = heap[reg.other].cache["parent"],
                                    !.count = count_next(@)]
                              /\ UNCHANGED <<pc, par>>
                     ELSE /\ par' = [self |-> reg.other, other |-> reg.other,
                                     revs |-> <<>>, to |-> "reg_next"]
                          /\ pc' = "parent_while"
                          /\ UNCHANGED reg
                  /\ UNCHANGED ret
    /\ UNCHANGED <<limits, summary>>

----------------------------------------------------------------------------
(* The ancestry runs: a caller holds one Push and reads its properties *)

Init ==
    /\ heap = <<Push(MaxRev, DefaultBranch)>>
    /\ hgRepo = EmptyMap
    /\ queryData = EmptyMap
    /\ runs = EmptyMap
    /\ fetches = EmptyMap
    /\ pc = "idle"
    /\ reg = NoReg
    /\ par = NoPar
    /\ ret = NoRet
    /\ limits = [same |-> WalkSamePush, merge |-> 0, labels |-> Labels, fail |-> 0]
    /\ summary = NoSummary

Next ==
    \/ CallParent
    \/ ParentWhile
    \/ ParentForEnd
    \/ ParentForBody
    \/ CallTasks
    \/ CallLabelSummaries
    \/ CallCandidateRegressions
    \/ CallRegressions
    \/ RegForEnd
    \/ RegForBody
    \/ RegWhile

Spec == Init /\ [][Next]_vars

----------------------------------------------------------------------------
(* The walk runs: the caller reads nothing but the regressions of the push *)

NextWalk ==
    \/ CallRegressions
    \/ RegForEnd
    \/ RegForBody
    \/ RegWhile
    \/ ParentWhile
    \/ ParentForEnd
    \/ ParentForBody

SpecWalk == Init /\ [][NextWalk]_vars

----------------------------------------------------------------------------
(* The deep runs: a long history of single-commit pushes and one label *)

InitDeep ==
    /\ heap = <<Push(DeepRev, DefaultBranch)>>
    /\ hgRepo = EmptyMap
    /\ queryData = EmptyMap
    /\ runs = EmptyMap
    /\ fetches = EmptyMap
    /\ pc = "idle"
    /\ reg = NoReg
    /\ par = NoPar
    /\ ret = NoRet
    /\ limits = [same |-> 0, merge |-> 0, labels |-> {"L1"}, fail |-> 0]
    /\ summary = NoSummary

SpecDeep == InitDeep /\ [][Next]_vars

----------------------------------------------------------------------------
(* The ingestion runs: the query returns any short list of rows for the    *)
(* push, and a caller reads the properties computed from them              *)

\* a row without one of its keys
Without(row, key) == [k \in DOMAIN row \ {key} |-> row[k]]

DurationOf(label) == IF label = "L1" THEN 2400 ELSE 1800

\* rows of either label, passed or failed, unclassified or explained, and
\* rows the sanitizing has to drop
RawRows ==
    {Row(l, DurationOf(l), r, c) :
        l \in Labels, r \in {"success", "testfailed"},
        c \in {"not classified", "intermittent"}}
    \cup {Row("L1", 2400, "busted", "fixed by commit"),
          Row("L2", 1800, "exception", "not classified"),
          Row("L1", 0, "testfailed", "not classified"),
          Row("L2", -5, "success", "not classified"),
          Without(Row("L1", 2400, "testfailed", "not classified"), "classification"),
          Without(Row("L1", 2400, "success", "not classified"), "duration"),
          Without(Row("L2", 1800, "testfailed", "not classified"), "label")}

SeqsUpTo(S, n) == UNION {[1..k -> S] : k \in 0..n}

InitIngest ==
    /\ heap = <<Push(0, DefaultBranch)>>
    /\ hgRepo = EmptyMap
    /\ \E data \in SeqsUpTo(RawRows, MaxRecords) : queryData = Put(EmptyMap, 0, data)
    /\ runs = EmptyMap
    /\ fetches = EmptyMap
    /\ pc = "idle"
    /\ reg = NoReg
    /\ par = NoPar
    /\ ret = NoRet
    /\ limits = [same |-> 0, merge |-> 0, labels |-> Labels, fail |-> 0]
    /\ summary = NoSummary

NextIngest ==
    \/ CallTasks
    \/ CallLabelSummaries
    \/ CallCandidateRegressions
    \/ CallDuration
    \/ CallScheduledDuration

SpecIngest == InitIngest /\ [][NextIngest]_vars

----------------------------------------------------------------------------
(* The summary runs: a caller builds a LabelSummary from the dataclass and *)
(* reads its properties                                                    *)

TaskRows ==
    {Row(l, DurationOf(l), r, c) :
        l \in Labels, r \in {"success", "testfailed", "exception"},
        c \in {"not classified", "intermittent"}}

\* LabelSummary(label, tasks): the assertion of __post_init__ decides
BuildSummary ==
    /\ summary = NoSummary
    /\ \E label \in Labels, tasks \in SeqsUpTo(TaskRows, MaxSummaryTasks) :
         IF post_init(label, tasks)
             THEN /\ summary' = [label |-> label, tasks |-> tasks]
                  /\ ret' = NoRet
         ELSE /\ ret' = Returned("LabelSummary", "AssertionError")
              /\ UNCHANGED summary
    /\ UNCHANGED <<heap, hgRepo, queryData, runs, fetches, pc, reg, par, limits>>

ReadSummary(name, val) ==
    /\ summary # NoSummary
    /\ ret' = Returned(name, val)
    /\ UNCHANGED <<heap, hgRepo, queryData, runs, fetches, pc, reg, par,
                   limits, summary>>

CallStatus == ReadSummary("status", status(summary))

CallClassifications == ReadSummary("classifications", classifications(summary))

CallResults == ReadSummary("results", results(summary))

InitSummary ==
    /\ heap = <<>>
    /\ hgRepo = EmptyMap
    /\ queryData = EmptyMap
    /\ runs = EmptyMap
    /\ fetches = EmptyMap
    /\ pc = "idle"
    /\ reg = NoReg
    /\ par = NoPar
    /\ ret = NoRet
    /\ limits = [same |-> 0, merge |-> 0, labels |-> Labels, fail |-> 0]
    /\ summary = NoSummary

NextSummary ==
    \/ BuildSummary
    \/ CallStatus
    \/ CallClassifications
    \/ CallResults

SpecSummary == InitSummary /\ [][NextSummary]_vars

----------------------------------------------------------------------------
(* The parent runs: a caller reads the parent of a Push of either branch   *)
(* in a repository with multi-commit pushes and merges                     *)

InitParent ==
    /\ \E b \in Branches : heap = <<Push(ParentRev, b)>>
    /\ hgRepo = EmptyMap
    /\ queryData = EmptyMap
    /\ runs = EmptyMap
    /\ fetches = EmptyMap
    /\ pc = "idle"
    /\ reg = NoReg
    /\ par = NoPar
    /\ ret = NoRet
    /\ limits = [same |-> MaxSamePush, merge |-> MaxMerges, labels |-> {}, fail |-> 0]
    /\ summary = NoSummary

NextParent ==
    \/ CallParent
    \/ CallParentOfParent
    \/ ParentWhile
    \/ ParentForEnd
    \/ ParentForBody

SpecParent == InitParent /\ [][NextParent]_vars

\* the interpreter runs the loop as long as it can take a step
FairParent == SpecParent /\ WF_vars(NextParent)

----------------------------------------------------------------------------
(* The failing runs: requests may fail, and a caller reads the properties  *)
(* of a Push, those of the Decision task included                          *)

\* the push is at FailRev, one label runs, and up to MaxFailures requests fail
FailRev == 2
MaxFailures == 1

InitFail ==
    /\ heap = <<Push(FailRev, DefaultBranch)>>
    /\ hgRepo = EmptyMap
    /\ queryData = EmptyMap
    /\ runs = EmptyMap
    /\ fetches = EmptyMap
    /\ pc = "idle"
    /\ reg = NoReg
    /\ par = NoPar
    /\ ret = NoRet
    /\ limits = [same |-> 0, merge |-> 0, labels |-> {"L1"}, fail |-> MaxFailures]
    /\ summary = NoSummary

NextFail ==
    \/ CallParent
    \/ ParentWhile
    \/ ParentForEnd
    \/ ParentForBody
    \/ CallTasks
    \/ CallCandidateRegressions
    \/ CallRegressions
    \/ RegForEnd
    \/ RegForBody
    \/ RegWhile
    \/ CallTargetTaskLabels
    \/ CallScheduledTaskLabels

SpecFail == InitFail /\ [][NextFail]_vars

----------------------------------------------------------------------------
(* What the claims speak of, read off the instances *)

\* the k-th ancestor of instance o along the memoized parent (0: not resolved)
RECURSIVE Ancestor(_, _)
Ancestor(o, k) ==
    IF k = 0 \/ o = 0 THEN o
    ELSE IF "parent" \in DOMAIN heap[o].cache
        THEN Ancestor(heap[o].cache["parent"], k - 1)
    ELSE 0

Inspected(o) == o # 0 /\ "tasks" \in DOMAIN heap[o].cache

TasksOn(o) == heap[o].cache["tasks"]

\* the push ran the label / is known not to have run it
Ran(o, l) == Inspected(o) /\ \E i \in 1..Len(TasksOn(o)) : TasksOn(o)[i].label = l

Skipped(o, l) ==
    Inspected(o) /\ \A i \in 1..Len(TasksOn(o)) : TasksOn(o)[i].label # l

\* every run of the label on the push passed
PassedOn(o, l) ==
    \A i \in 1..Len(TasksOn(o)) :
        TasksOn(o)[i].label = l =>
            TasksOn(o)[i].result \notin {"busted", "exception", "testfailed"}

\* the k-th ancestor of P is the nearest one that ran the label
NearestRun(l, k) ==
    /\ Ran(Ancestor(P, k), l)
    /\ \A j \in 1..(k - 1) : Skipped(Ancestor(P, j), l)

HasRegressions == "regressions" \in DOMAIN heap[P].cache

Regressions == heap[P].cache["regressions"]

Candidates == heap[P].cache["candidate_regressions"]

Depths == 1..Len(heap)

----------------------------------------------------------------------------
(* C1: every label of P.regressions passed on the nearest ancestor of P    *)
(* that ran it, or no ancestor within the search bound ran it; a label     *)
(* whose nearest running ancestor failed or was intermittent is no key.    *)
C1_NoPriorRegression ==
    HasRegressions =>
        \A l \in DOMAIN Regressions :
            \/ \E k \in Depths : NearestRun(l, k) /\ PassedOn(Ancestor(P, k), l)
            \/ \A k \in 1..max_depth : Skipped(Ancestor(P, k), l)

\* one candidate is kept and one is dropped as a prior regression whose
\* nearest running ancestor was intermittent
C1_Witness ==
    /\ HasRegressions
    /\ DOMAIN Regressions # {}
    /\ \E l \in Candidates \ DOMAIN Regressions : \E k \in Depths :
          /\ NearestRun(l, k)
          /\ status(heap[Ancestor(P, k)].cache["label_summaries"][l]) = "INTERMITTENT"

C3_SentinelAfterMaxDepth ==
    HasRegressions =>
        \A l \in Candidates :
            (\A k \in 1..max_depth : Skipped(Ancestor(P, k), l)) =>
                (l \in DOMAIN Regressions /\ Regressions[l] = 99)

(* C4: the walk of Push.regressions examines at most max_depth = 5         *)
(* ancestors for a candidate label: no sixth ancestor is ever inspected.   *)
C4_WalkStopsAtMaxDepth ==
    \A k \in Depths : k > max_depth => ~ Inspected(Ancestor(P, k))

\* the memoized parent of an instance has another pushid than the instance
ParentPushidDiffers ==
    \A o \in 1..Len(heap) :
        "parent" \in DOMAIN heap[o].cache =>
            heap[heap[o].cache["parent"]].cache["_hgmo"].pushid
                # heap[o].cache["_hgmo"].pushid

(* C5: an access to Push.parent never loops forever: it returns, and the   *)
(* Push it returns has a pushid different from that of the push read.      *)
C5_ParentReturns ==
    /\ []ParentPushidDiffers
    /\ (pc = "parent_while") ~> (pc = "idle")

HasCandidates == "candidate_regressions" \in DOMAIN heap[P].cache

FailedRun(t) == t.result \in {"busted", "exception", "testfailed"}

\* the label ran on P and not every run of it passed
NotPassed(l) ==
    /\ \E i \in 1..Len(TasksOn(P)) : TasksOn(P)[i].label = l
    /\ ~ PassedOn(P, l)

\* some failed run of the label on P is unexplained
Unexplained(l) ==
    \E i \in 1..Len(TasksOn(P)) :
        /\ TasksOn(P)[i].label = l
        /\ FailedRun(TasksOn(P)[i])
        /\ TasksOn(P)[i].classification \in {"not classified", "fixed by commit"}

(* C6: a label is a candidate regression of a push exactly if its status  *)
(* is not PASS and some failed task of it is "not classified" or "fixed    *)
(* by commit"; so the candidates are among the labels that did not pass,   *)
(* and a label whose failures are all classified otherwise is none.        *)
C6_CandidateIff ==
    HasCandidates =>
        /\ \A l \in Labels : l \in Candidates <=> (NotPassed(l) /\ Unexplained(l))
        /\ \A l \in Candidates :
              status(heap[P].cache["label_summaries"][l]) # "PASS"

\* one label is a candidate, the other failed too but is explained
C6_Witness ==
    /\ HasCandidates
    /\ ret.name = "candidate_regressions"
    /\ \E l \in Candidates : \E k \in Labels \ Candidates :
          NotPassed(k) /\ ~ Unexplained(k)

NoneFailed == \A i \in 1..Len(summary.tasks) : ~ FailedRun(summary.tasks[i])

AllFailed == \A i \in 1..Len(summary.tasks) : FailedRun(summary.tasks[i])

StatusAsClaimed ==
    ret.name = "status" =>
        /\ ret.val = "PASS" <=> NoneFailed
        /\ ret.val = "FAIL" <=> AllFailed
        /\ (~ NoneFailed /\ ~ AllFailed) => ret.val = "INTERMITTENT"
        /\ ret.val \in {"PASS", "FAIL", "INTERMITTENT"}

ValidRow(row) ==
    /\ {"label", "duration", "result", "classification"} \subseteq DOMAIN row
    /\ row.duration > 0

(* C8: Push.tasks holds exactly the rows of the query that have all of     *)
(* label, duration, result and classification and a duration > 0, in the   *)
(* order fetched; a row missing a key or with duration <= 0 is never in it.*)
C8_TasksAreValidRows ==
    Inspected(P) =>
        /\ TasksOn(P) = SelectSeq(queryData[heap[P].rev], ValidRow)
        /\ \A i \in 1..Len(TasksOn(P)) : ValidRow(TasksOn(P)[i])

\* a row without a key and a row of duration 0 were dropped
C8_Witness ==
    /\ Inspected(P)
    /\ ret.name = "tasks"
    /\ ret.val = <<>>
    /\ \E i, j \in 1..Len(queryData[heap[P].rev]) :
          LET rows == queryData[heap[P].rev]
          IN  /\ "classification" \notin DOMAIN rows[i]
              /\ "duration" \in DOMAIN rows[j]
              /\ rows[j].duration = 0

(* C9: possible_regressions and likely_regressions partition the keys of   *)
(* regressions: disjoint, together every key, the labels of count > 0 and  *)
(* the labels of count 0, which ran and passed on the immediate parent.    *)
C9_PossibleLikelyPartition ==
    HasRegressions =>
        LET possible == view("possible_regressions", Regressions)
            likely == view("likely_regressions", Regressions)
        IN  /\ possible \cap likely = {}
            /\ possible \cup likely = DOMAIN Regressions
            /\ \A l \in DOMAIN Regressions :
                  /\ l \in possible <=> Regressions[l] > 0
                  /\ l \in likely <=> Regressions[l] = 0
                  /\ l \in likely <=>
                        (Ran(Ancestor(P, 1), l) /\ PassedOn(Ancestor(P, 1), l))
            /\ ret.name = "possible_regressions" => ret.val = possible
            /\ ret.name = "likely_regressions" => ret.val = likely

\* one regression of each kind, and the caller has read likely_regressions
C9_Witness ==
    /\ HasRegressions
    /\ ret.name = "likely_regressions"
    /\ ret.val # {}
    /\ \E l \in DOMAIN Regressions : Regressions[l] > 0

MemoizedNames ==
    {"_hgmo", "parent", "tasks", "label_summaries", "candidate_regressions",
     "regressions"}

ComputedOnce ==
    /\ \A k \in DOMAIN runs : runs[k] <= 1
    /\ \A k \in DOMAIN fetches : fetches[k] <= 1

\* a step keeps every memoized value, and an access to a property that was
\* memoized before the step returns the value held before the step
KeepsMemoized ==
    /\ \A o \in 1..Len(heap) : \A n \in DOMAIN heap[o].cache :
          /\ o <= Len(heap')
          /\ n \in DOMAIN heap'[o].cache
          /\ heap'[o].cache[n] = heap[o].cache[n]
    /\ (ret'.name \in MemoizedNames /\ ret'.name \in DOMAIN heap[P].cache) =>
          ret'.val = heap[P].cache[ret'.name]

HasLabelSummaries == "label_summaries" \in DOMAIN heap[P].cache

LabelSummaries == heap[P].cache["label_summaries"]

\* the tasks of P with that label, in the order of Push.tasks
TasksOf(l) == LET Is(t) == t.label = l IN SelectSeq(TasksOn(P), Is)

(* C11: the keys of label_summaries are exactly the distinct labels of the *)
(* tasks of the push, each summary holds exactly the tasks of its label in *)
(* fetch order, and building the summaries never fails the assertion of    *)
(* LabelSummary.__post_init__.                                             *)
C11_SummariesGroupTasks ==
    /\ ~ (ret.name = "raise" /\ ret.val = AssertionError)
    /\ HasLabelSummaries =>
          /\ DOMAIN LabelSummaries = {TasksOn(P)[i].label : i \in 1..Len(TasksOn(P))}
          /\ \A l \in DOMAIN LabelSummaries :
                /\ LabelSummaries[l].label = l
                /\ LabelSummaries[l].tasks = TasksOf(l)
                /\ post_init(l, LabelSummaries[l].tasks)

\* a label failed and passed on its retrigger: its summary holds both, the
\* failed one first
C11_Witness ==
    /\ HasLabelSummaries
    /\ ret.name = "label_summaries"
    /\ \E l \in DOMAIN ret.val :
          /\ Len(ret.val[l].tasks) = 2
          /\ ret.val[l].tasks[1].result = "testfailed"
          /\ ret.val[l].tasks[2].result = "success"

\* the tasks that are the first of their label in the list
FirstSeen(tasks) ==
    {i \in 1..Len(tasks) : \A j \in 1..(i - 1) : tasks[j].label # tasks[i].label}

\* the seconds of the tasks at the places I of the list
RECURSIVE SecondsOf(_, _)
SecondsOf(tasks, I) ==
    IF I = {} THEN 0
    ELSE LET i == CHOOSE x \in I : TRUE
         IN  tasks[i].duration + SecondsOf(tasks, I \ {i})

HasScheduledDuration == "scheduled_duration" \in DOMAIN heap[P].cache

HasDuration == "duration" \in DOMAIN heap[P].cache

(* C12: scheduled_duration is the number of whole hours (the division by   *)
(* 3600, truncated) in the sum of the durations of the tasks that are the  *)
(* first of their label in fetch order; a later task of a label already    *)
(* seen, a retrigger or backfill, adds nothing.                            *)
C12_ScheduledDurationFirstSeen ==
    HasScheduledDuration =>
        /\ heap[P].cache["scheduled_duration"] =
              SecondsOf(TasksOn(P), FirstSeen(TasksOn(P))) \div 3600
        /\ ret.name = "scheduled_duration" =>
              ret.val = heap[P].cache["scheduled_duration"]

\* a label and its retrigger ran 80 minutes together: duration is one hour,
\* scheduled_duration counts the first 40 minutes only and is 0
C12_Witness ==
    /\ HasDuration
    /\ heap[P].cache["duration"] = 1
    /\ ret.name = "scheduled_duration"
    /\ ret.val = 0
    /\ Len(TasksOn(P)) = 2
    /\ TasksOn(P)[1].label = TasksOn(P)[2].label

\* no label has more than one task on P
NoRetrigger ==
    \A i, j \in 1..Len(TasksOn(P)) :
        i # j => TasksOn(P)[i].label # TasksOn(P)[j].label

(* C17: scheduled_duration is at most duration, and the seconds summed for *)
(* scheduled_duration equal the seconds summed for duration exactly when   *)
(* no label has more than one task among the tasks of the push.            *)
C17_ScheduledAtMostDuration ==
    (HasDuration /\ HasScheduledDuration) =>
        /\ heap[P].cache["scheduled_duration"] <= heap[P].cache["duration"]
        /\ scheduledLoop(TasksOn(P), 1, {}, 0) <= sumLoop(TasksOn(P), 1)
        /\ scheduledLoop(TasksOn(P), 1, {}, 0) = sumLoop(TasksOn(P), 1)
              <=> NoRetrigger

\* with a retrigger the hours differ; both properties were read
C17_Witness ==
    /\ HasDuration
    /\ HasScheduledDuration
    /\ ~ NoRetrigger
    /\ heap[P].cache["scheduled_duration"] < heap[P].cache["duration"]

\* the step issued a request that was not answered
RequestFailed ==
    \E k \in DOMAIN fetches' :
        /\ fetches'[k] > Count(fetches, k)
        /\ MemoOf(k[2]) \notin DOMAIN heap'[k[1]].cache

\* what a step that ends with a failed request does: the exception is in the
\* caller's hands, every frame is gone, no request was issued twice, and no
\* regressions are held that were not held before
FailurePropagates ==
    /\ ret'.name = "raise"
    /\ ret'.val = FetchError
    /\ pc' = "idle"
    /\ reg' = NoReg
    /\ par' = NoPar
    /\ \A k \in DOMAIN fetches' : fetches'[k] <= Count(fetches, k) + 1
    /\ ~ HasRegressions => "regressions" \notin DOMAIN heap'[P].cache

\* regressions, where memoized, is complete: every candidate was walked to
\* an ancestor that ran it
RegressionsComplete ==
    HasRegressions =>
        /\ "candidate_regressions" \in DOMAIN heap[P].cache
        /\ \A l \in Candidates : \E k \in Depths :
              /\ NearestRun(l, k)
              /\ l \in DOMAIN Regressions <=> PassedOn(Ancestor(P, k), l)

(* C13: a request that fails while a property such as regressions is being *)
(* computed raises to the caller of the property: the access returns no    *)
(* regressions, partial or complete, memoizes none, and the request is not *)
(* tried again; regressions that are memoized are always complete.         *)
C13_FetchFailurePropagates ==
    /\ [][RequestFailed => FailurePropagates]_vars
    /\ [](ret.name = "raise" => pc = "idle")
    /\ []RegressionsComplete

\* the walk to the ancestors had inspected the parent when a request failed
C13_Witness ==
    /\ ret.name = "raise"
    /\ ret.val = FetchError
    /\ Failed > 0
    /\ HasCandidates
    /\ Candidates # {}
    /\ Inspected(Ancestor(P, 1))
    /\ ~ HasRegressions

\* some ancestry has been resolved: a Push was made for a parent revision,
\* or the metadata of a revision was requested
ResolvedAny ==
    \/ Len(heap) > 1
    \/ \E k \in DOMAIN fetches : k[2] = "hgmo"

\* the ancestors whose tasks were fetched are the nearest ones, without a gap
InOrder ==
    \A o \in 2..Len(heap) :
        Inspected(o) =>
            \E k \in Depths :
                /\ o = Ancestor(P, k)
                /\ \A j \in 1..(k - 1) : Inspected(Ancestor(P, j))

\* an ancestor is inspected only for a candidate that every nearer one skipped
OnlyAsFarAsNeeded ==
    \A k \in Depths :
        Inspected(Ancestor(P, k)) =>
            /\ HasCandidates
            /\ \E l \in Candidates : \A j \in 1..(k - 1) : Skipped(Ancestor(P, j), l)

\* once regressions is there, the walk of some candidate stopped on the
\* farthest inspected ancestor
DeepestIsAStop ==
    HasRegressions =>
        \A k \in Depths :
            Inspected(Ancestor(P, k)) =>
                \E l \in Candidates : \E d \in k..Len(heap) : NearestRun(l, d)

(* C14: regressions is lazy in the ancestry: the tasks of the push are     *)
(* fetched and its candidates known before any ancestor is resolved; with  *)
(* no candidate no parent is resolved and nothing of an ancestor is        *)
(* fetched; otherwise the ancestors are inspected in the order parent,     *)
(* grandparent, ..., and none beyond the one where the deepest walk of a   *)
(* candidate stopped has its tasks fetched.                                *)
C14_LazyAncestry ==
    /\ ResolvedAny => (Inspected(P) /\ HasCandidates /\ Candidates # {})
    /\ (HasCandidates /\ Candidates = {}) =>
          (~ ResolvedAny /\ DOMAIN fetches = {<<P, "push_results">>})
    /\ InOrder
    /\ OnlyAsFarAsNeeded
    /\ DeepestIsAStop

\* two candidates: one walk stopped on the parent, the other on the
\* grandparent, and nothing was fetched of the ancestor after it
C14_Witness ==
    /\ HasRegressions
    /\ \E l, k \in Candidates : NearestRun(l, 1) /\ NearestRun(k, 2)
    /\ Ancestor(P, 3) = 0
    /\ \A r \in DOMAIN queryData : r >= heap[Ancestor(P, 2)].rev

\* the branch in the url of the metadata request of instance o (Push._hgmo
\* formats the url with self.branch)
BranchFetched(o) == heap[o].branch

(* C15: every Push made during a parent walk keeps the branch of the Push  *)
(* it was derived from: the metadata of the parent and of every further    *)
(* ancestor of a Push of branch B is requested for branch B.               *)
C15_BranchKept ==
    /\ \A o \in 1..Len(heap) : heap[o].branch = heap[P].branch
    /\ \A k \in DOMAIN fetches :
          k[2] = "hgmo" => BranchFetched(k[1]) = heap[P].branch

(* C16: the derived sets of a push are nested: likely_regressions and      *)
(* possible_regressions together are the keys of regressions, these are    *)
(* among candidate_regressions, these among the keys of label_summaries,   *)
(* which are task_labels; so no label that did not run on the push and no  *)
(* label that is not a candidate is ever in regressions.                   *)
C16_NestedSets ==
    /\ HasLabelSummaries =>
          DOMAIN LabelSummaries = task_labels(TasksOn(P))
    /\ HasCandidates =>
          (HasLabelSummaries /\ Candidates \subseteq DOMAIN LabelSummaries)
    /\ HasRegressions =>
          /\ HasCandidates
          /\ DOMAIN Regressions \subseteq Candidates
          /\ view("likely_regressions", Regressions)
                \cup view("possible_regressions", Regressions) = DOMAIN Regressions
          /\ ret.name \in {"likely_regressions", "possible_regressions"} =>
                ret.val \subseteq task_labels(TasksOn(P))

\* two labels ran, one of them is a candidate and a possible regression
C16_Witness ==
    /\ HasRegressions
    /\ Cardinality(DOMAIN LabelSummaries) = 2
    /\ Cardinality(Candidates) = 1
    /\ DOMAIN Regressions = Candidates
    /\ ret.name = "possible_regressions"
    /\ ret.val = Candidates

====
